---- MODULE Spec2Model ----
(***************************************************************************)
(* The GitHub user search form of this repository.                         *)
(*                                                                         *)
(*   App              src/src/User.tsx, lines 35-99: the variant with a    *)
(*                    loading flag and a try/catch around the request.     *)
(*   GitHubUserSearch src/unnamed/part_000, lines 247-277: the variant of  *)
(*                    the guide, a bare promise chain without a loading    *)
(*                    flag.                                                *)
(*                                                                         *)
(* A component is its useState slots, the DOM of its last commit, and the  *)
(* continuations of handleSubmit that are suspended at an await.  Every    *)
(* event handler runs to its next await and React commits a re-render      *)
(* before the next event is delivered, so each action ends by rendering.   *)
(***************************************************************************)
EXTENDS Integers, Sequences, FiniteSets, TLC

VARIABLES
    userName,      \* useState<string>("")                 User.tsx:38
    user,          \* useState<GithubUser | null>(null)    User.tsx:39
    loading,       \* useState<boolean>(false)             User.tsx:40
    dom,           \* what the last commit rendered        User.tsx:70-98
    inflight,      \* suspended handleSubmit continuations, in dispatch order
    console,       \* what console.error has printed       User.tsx:65
    mounted,       \* is the component instance still mounted
    staleSets,     \* state setters called after the unmount
    lastEvent,     \* history: the event handled last
    userAtSubmit,  \* history: user at the last dispatch
    lastDispatched \* history: URL of the last dispatched request

vars == <<userName, user, loading, dom, inflight, console, mounted,
          staleSets, lastEvent, userAtSubmit, lastDispatched>>

----------------------------------------------------------------------------
(* Bounds *)

MaxLen == 1
MaxInflight == 2
MaxConsole == 2

----------------------------------------------------------------------------
(* Values *)

\* Characters the user can type; "/" is a character a URL would have to
\* escape.
Chars == {"a", "/"}

\* event.target.value: any text of the input.
Texts == UNION {[1..n -> Chars] : n \in 0..MaxLen}

null == [type |-> "null"]

undefined == <<"undefined">>

\* `https://api.github.com/users/${userName}`: the template literal appends
\* the text to the base, with no encoding.
BaseUrl == <<"https://api.github.com/users/">>

\* Variant: the text is percent-encoded on its way into the URL.
Url_Encoded(name) ==
    BaseUrl \o [i \in 1..Len(name) |-> IF name[i] = "/" THEN "%2F" ELSE name[i]]

Url(name) == BaseUrl \o name

\* The path segment the server reads back from a request URL.
Login(url) == SubSeq(url, Len(BaseUrl) + 1, Len(url))

\* The JSON objects the endpoint answers with: the profile of the login in
\* the URL, or an error object.  No schema is checked on receipt.
Profile(login) ==
    [type |-> "object", login |-> login, name |-> login,
     avatar_url |-> login, html_url |-> login, bio |-> login]

NotFound == [type |-> "object", message |-> <<"Not Found">>]

Bodies(url) == {Profile(Login(url)), NotFound}

\* The errors the catch block can receive.
NetworkError == "TypeError: Failed to fetch"

ParseError == "SyntaxError: Unexpected token"

\* user.name, user.bio, user.avatar_url: a missing property reads undefined.
Prop(obj, field) == IF field \in DOMAIN obj THEN obj[field] ELSE undefined

\* `user && (...)`: null is falsy, every object is truthy.
Truthy(value) == value # null

----------------------------------------------------------------------------
(* Rendering *)

\* The result panel: <h1>{user.name}</h1> <p>{user.bio}</p> <img src=.../>
Panel(u) ==
    [h1 |-> Prop(u, "name"), p |-> Prop(u, "bio"),
     img |-> Prop(u, "avatar_url")]

\* Variant: the indicator is rendered above the form instead of in its
\* place.
Render_IndicatorAboveForm(name, u, isLoading) ==
    [indicator |-> isLoading, form |-> TRUE, button |-> TRUE,
     input |-> {name}, panel |-> IF Truthy(u) THEN {Panel(u)} ELSE {}]

\* The return value of App.  Optional elements are sets of at most one.
Render(name, u, isLoading) ==
    IF isLoading
    THEN [indicator |-> TRUE, form |-> FALSE, button |-> FALSE,
          input |-> {}, panel |-> {}]
    ELSE [indicator |-> FALSE, form |-> TRUE, button |-> TRUE,
          input |-> {name},
          panel |-> IF Truthy(u) THEN {Panel(u)} ELSE {}]

\* Nothing of the component is in the document.
EmptyDom ==
    [indicator |-> FALSE, form |-> FALSE, button |-> FALSE,
     input |-> {}, panel |-> {}]

\* React commits the render of the new state; an unmounted instance renders
\* nothing.
Commit == dom' = IF mounted' THEN Render(userName', user', loading') ELSE EmptyDom

----------------------------------------------------------------------------
(* State setters: React drops an update of an unmounted instance *)

setUserName(value) == userName' = IF mounted THEN value ELSE userName

setUser(value) == user' = IF mounted THEN value ELSE user

setLoading(value) == loading' = IF mounted THEN value ELSE loading

\* n setters were called; they are stale when the instance is gone.
Setters(n) == staleSets' = IF mounted THEN staleSets ELSE staleSets + n

\* An event: its kind, the request it continues (0: none), and what it
\* delivers: the text typed or the data parsed.
Event(kind, req, arg) == [kind |-> kind, req |-> req, arg |-> arg]

\* inflight without its i-th element.
Remove(seq, i) == SubSeq(seq, 1, i - 1) \o SubSeq(seq, i + 1, Len(seq))

----------------------------------------------------------------------------
(* App *)

Init ==
    /\ userName = <<>>
    /\ user = null
    /\ loading = FALSE
    /\ dom = Render(<<>>, null, FALSE)
    /\ inflight = <<>>
    /\ console = <<>>
    /\ mounted = TRUE
    /\ staleSets = 0
    /\ lastEvent = Event("mount", 0, <<>>)
    /\ userAtSubmit = null
    /\ lastDispatched = <<>>

\* onChange of the input: only a rendered input raises it.
handleChange(value) ==
    /\ dom.input # {}
    /\ setUserName(value)
    /\ lastEvent' = Event("change", 0, value)
    /\ UNCHANGED <<user, loading, inflight, console, mounted, staleSets,
                   userAtSubmit, lastDispatched>>
    /\ Commit

\* The request handleSubmit issues: fetch of the URL built from the
\* userName of the render the handler closes over.
Request == [url |-> Url(userName), pc |-> "fetch"]

\* Variant: the handler also clears the input once the request is out.
handleSubmit_ClearsInput ==
    /\ dom.form
    /\ Len(inflight) < MaxInflight
    /\ setLoading(TRUE)
    /\ inflight' = Append(inflight, Request)
    /\ setUserName(<<>>)
    /\ lastEvent' = Event("submit", Len(inflight) + 1, <<>>)
    /\ userAtSubmit' = user
    /\ lastDispatched' = Url(userName)
    /\ UNCHANGED <<user, console, mounted, staleSets>>
    /\ Commit

\* onSubmit of the form, up to the first await: setLoading(true), fetch.
handleSubmit ==
    /\ dom.form
    /\ Len(inflight) < MaxInflight
    /\ setLoading(TRUE)
    /\ inflight' = Append(inflight, Request)
    /\ lastEvent' = Event("submit", Len(inflight) + 1, <<>>)
    /\ userAtSubmit' = user
    /\ lastDispatched' = Url(userName)
    /\ UNCHANGED <<userName, user, console, mounted, staleSets>>
    /\ Commit

\* Variant: the catch block logs but leaves the loading flag up.
CatchBlock_KeepsLoading(error) ==
    /\ console' = Append(console, error)
    /\ Setters(0)
    /\ UNCHANGED <<userName, user, loading>>

\* Variant: the catch block also drops the stale result.
CatchBlock_ClearsUser(error) ==
    /\ setUser(null)
    /\ setLoading(FALSE)
    /\ console' = Append(console, error)
    /\ Setters(2)
    /\ UNCHANGED userName

\* catch (error) { setLoading(false); console.error(error) }
CatchBlock(error) ==
    /\ setLoading(FALSE)
    /\ console' = Append(console, error)
    /\ Setters(1)
    /\ UNCHANGED <<userName, user>>

\* Variant: the data is spread over the previous result.
OnData_Merges(data) ==
    /\ setUser(IF user = null THEN data ELSE data @@ user)
    /\ setLoading(FALSE)
    /\ Setters(2)
    /\ UNCHANGED <<userName, console>>

\* Variant: the loading flag is lowered in the catch block only.
OnData_KeepsLoading(data) ==
    /\ setUser(data)
    /\ Setters(1)
    /\ UNCHANGED <<userName, console, loading>>

\* setUser(data); setLoading(false)
OnData(data) ==
    /\ setUser(data)
    /\ setLoading(FALSE)
    /\ Setters(2)
    /\ UNCHANGED <<userName, console>>

\* await fetch(...) resolves: the response has arrived (whatever its status)
\* and response.json() starts reading the body.
FetchResolve(i) ==
    /\ i \in 1..Len(inflight)
    /\ inflight[i].pc = "fetch"
    /\ inflight' = [inflight EXCEPT ![i].pc = "json"]
    /\ lastEvent' = Event("fetchResolve", i, <<>>)
    /\ UNCHANGED <<userName, user, loading, console, mounted, staleSets,
                   userAtSubmit, lastDispatched>>
    /\ Commit

\* await fetch(...) rejects: network failure.
FetchReject(i) ==
    /\ i \in 1..Len(inflight)
    /\ inflight[i].pc = "fetch"
    /\ Len(console) < MaxConsole
    /\ CatchBlock(NetworkError)
    /\ inflight' = Remove(inflight, i)
    /\ lastEvent' = Event("fetchReject", i, <<>>)
    /\ UNCHANGED <<mounted, userAtSubmit, lastDispatched>>
    /\ Commit

\* await response.json() resolves: the body was one of the JSON objects the
\* endpoint answers the request with.
JsonResolve(i, data) ==
    /\ i \in 1..Len(inflight)
    /\ inflight[i].pc = "json"
    /\ data \in Bodies(inflight[i].url)
    /\ OnData(data)
    /\ inflight' = Remove(inflight, i)
    /\ lastEvent' = Event("jsonResolve", i, data)
    /\ UNCHANGED <<mounted, userAtSubmit, lastDispatched>>
    /\ Commit

\* await response.json() rejects: the body is not JSON.
JsonReject(i) ==
    /\ i \in 1..Len(inflight)
    /\ inflight[i].pc = "json"
    /\ Len(console) < MaxConsole
    /\ CatchBlock(ParseError)
    /\ inflight' = Remove(inflight, i)
    /\ lastEvent' = Event("jsonReject", i, <<>>)
    /\ UNCHANGED <<mounted, userAtSubmit, lastDispatched>>
    /\ Commit

Change == \E value \in Texts : handleChange(value)

Submit == handleSubmit

\* Every JSON object a response can carry.
AllBodies == UNION {Bodies(Url(t)) : t \in Texts}

Arrive == \E i \in 1..MaxInflight : FetchResolve(i)

NetworkFail == \E i \in 1..MaxInflight : FetchReject(i)

Parsed == \E i \in 1..MaxInflight : \E data \in AllBodies : JsonResolve(i, data)

ParseFail == \E i \in 1..MaxInflight : JsonReject(i)

Next == Change \/ Submit \/ Arrive \/ NetworkFail \/ Parsed \/ ParseFail

Spec == Init /\ [][Next]_vars

\* Every dispatched request settles: the network answers or fails, and the
\* body is read or found malformed.
Fairness == WF_vars(Arrive \/ NetworkFail) /\ WF_vars(Parsed \/ ParseFail)

FairSpec == Spec /\ Fairness

----------------------------------------------------------------------------
(* App and its lifetime *)

\* Variant: a cleanup aborts what is outstanding.
Unmount_Aborts ==
    /\ mounted
    /\ mounted' = FALSE
    /\ inflight' = <<>>
    /\ lastEvent' = Event("unmount", 0, <<>>)
    /\ UNCHANGED <<userName, user, loading, console, staleSets,
                   userAtSubmit, lastDispatched>>
    /\ Commit

\* The host removes the component.  App registers no cleanup and passes no
\* AbortSignal to fetch: the suspended continuations stay as they are.
Unmount ==
    /\ mounted
    /\ mounted' = FALSE
    /\ lastEvent' = Event("unmount", 0, <<>>)
    /\ UNCHANGED <<userName, user, loading, inflight, console, staleSets,
                   userAtSubmit, lastDispatched>>
    /\ Commit

NextLifetime == Next \/ Unmount

SpecLifetime == Init /\ [][NextLifetime]_vars

----------------------------------------------------------------------------
(* GitHubUserSearch: the variant of the guide, without loading and catch *)

\* <img src={user.avatar_url} alt={user.login}/> <p>{user.login}</p>
\* <a href={user.html_url}>Profile</a>
SearchPanel(u) ==
    [img |-> Prop(u, "avatar_url"), p |-> Prop(u, "login"),
     a |-> Prop(u, "html_url")]

\* The return value of GitHubUserSearch: the form is always there.
SearchRender(name, u) ==
    [indicator |-> FALSE, form |-> TRUE, button |-> TRUE, input |-> {name},
     panel |-> IF Truthy(u) THEN {SearchPanel(u)} ELSE {}]

SearchCommit == dom' = SearchRender(userName', user')

SearchInit ==
    /\ userName = <<>>
    /\ user = null
    /\ loading = FALSE
    /\ dom = SearchRender(<<>>, null)
    /\ inflight = <<>>
    /\ console = <<>>
    /\ mounted = TRUE
    /\ staleSets = 0
    /\ lastEvent = Event("mount", 0, <<>>)
    /\ userAtSubmit = null
    /\ lastDispatched = <<>>

\* What no action of GitHubUserSearch touches.
SearchFrame == UNCHANGED <<loading, console, mounted, staleSets, userAtSubmit>>

SearchHandleChange(value) ==
    /\ dom.input # {}
    /\ setUserName(value)
    /\ lastEvent' = Event("change", 0, value)
    /\ UNCHANGED <<user, inflight, lastDispatched>>
    /\ SearchFrame
    /\ SearchCommit

\* event.preventDefault(); fetch(`https://api.github.com/users/${username}`)
SearchHandleSubmit ==
    /\ dom.form
    /\ Len(inflight) < MaxInflight
    /\ inflight' = Append(inflight, Request)
    /\ lastEvent' = Event("submit", Len(inflight) + 1, <<>>)
    /\ lastDispatched' = Url(userName)
    /\ UNCHANGED <<userName, user>>
    /\ SearchFrame
    /\ SearchCommit

\* .then(response => response.json())
SearchFetchResolve(i) ==
    /\ i \in 1..Len(inflight)
    /\ inflight[i].pc = "fetch"
    /\ inflight' = [inflight EXCEPT ![i].pc = "json"]
    /\ lastEvent' = Event("fetchResolve", i, <<>>)
    /\ UNCHANGED <<userName, user, lastDispatched>>
    /\ SearchFrame
    /\ SearchCommit

\* A rejection of fetch or of response.json(): the chain has no catch, the
\* rejection is unhandled and no state changes.
SearchReject(i) ==
    /\ i \in 1..Len(inflight)
    /\ inflight' = Remove(inflight, i)
    /\ lastEvent' = Event("reject", i, <<>>)
    /\ UNCHANGED <<userName, user, lastDispatched>>
    /\ SearchFrame
    /\ SearchCommit

\* Variant: data of a request that is not the last dispatched is dropped.
SearchOnData_LatestOnly(i, data) ==
    /\ i \in 1..Len(inflight)
    /\ inflight[i].pc = "json"
    /\ data \in Bodies(inflight[i].url)
    /\ setUser(IF i = Len(inflight) THEN data ELSE user)
    /\ inflight' = Remove(inflight, i)
    /\ lastEvent' = Event("jsonResolve", i, data)
    /\ UNCHANGED <<userName, lastDispatched>>
    /\ SearchFrame
    /\ SearchCommit

\* .then(data => setUser(data)): the i-th dispatched of the outstanding
\* requests delivers its data.
SearchOnData(i, data) ==
    /\ i \in 1..Len(inflight)
    /\ inflight[i].pc = "json"
    /\ data \in Bodies(inflight[i].url)
    /\ setUser(data)
    /\ inflight' = Remove(inflight, i)
    /\ lastEvent' = Event("jsonResolve", i, data)
    /\ UNCHANGED <<userName, lastDispatched>>
    /\ SearchFrame
    /\ SearchCommit

SearchChange == \E value \in Texts : SearchHandleChange(value)

SearchSubmit == SearchHandleSubmit

SearchArrive == \E i \in 1..MaxInflight : SearchFetchResolve(i)

SearchFail == \E i \in 1..MaxInflight : SearchReject(i)

SearchParsed == \E i \in 1..MaxInflight : \E data \in AllBodies : SearchOnData(i, data)

SearchNext == SearchChange \/ SearchSubmit \/ SearchArrive \/ SearchFail \/ SearchParsed

SpecSearch == SearchInit /\ [][SearchNext]_vars

----------------------------------------------------------------------------
(* Steps and views the properties speak of *)

\* A step in which a suspended handleSubmit runs to its end.
Settles == Len(inflight') < Len(inflight)

SettleKinds == {"fetchReject", "jsonReject", "jsonResolve"}

FailureKinds == {"fetchReject", "jsonReject"}

FailureStep == Settles /\ lastEvent'.kind \in FailureKinds

SuccessStep == Settles /\ lastEvent'.kind = "jsonResolve"

\* The idle screen: form with the input showing text, result panel for u.
IdleView(text, u) ==
    [indicator |-> FALSE, form |-> TRUE, button |-> TRUE, input |-> {text},
     panel |-> IF u = null THEN {} ELSE {Panel(u)}]

\* The loading screen: the indicator and nothing else.
LoadingView ==
    [indicator |-> TRUE, form |-> FALSE, button |-> FALSE, input |-> {},
     panel |-> {}]

----------------------------------------------------------------------------
(* Properties of App *)

\* C1: loading is false initially; in every reachable state it is true
\* exactly when a request dispatched by handleSubmit has not yet settled;
\* it only rises on a submit and only falls on a settlement.
C1_LoadingIffOutstanding ==
    /\ loading = FALSE
    /\ [](loading <=> inflight # <<>>)
    /\ [][/\ (~loading /\ loading') => lastEvent'.kind = "submit"
          /\ (loading /\ ~loading') => (Settles /\ lastEvent'.kind \in SettleKinds)
          /\ lastEvent'.kind = "submit" => (~loading /\ loading')
          /\ Settles => (loading /\ ~loading')]_vars

C1_Witness ==
    lastEvent.kind = "fetchReject" /\ ~loading /\ inflight = <<>>

\* C2: when a request fails (network failure or unparseable body) user
\* keeps the value it had before the submission, loading becomes false,
\* the error goes to the console and the idle screen with the previous
\* result (or none) is shown: no error state is rendered.
C2_FailureKeepsResult ==
    [][FailureStep =>
          /\ user' = user
          /\ user' = userAtSubmit'
          /\ ~loading'
          /\ console' = Append(console,
                 IF lastEvent'.kind = "fetchReject" THEN NetworkError
                 ELSE ParseError)
          /\ dom' = IdleView(userName', userAtSubmit')]_vars

C2_Witness ==
    lastEvent.kind = "jsonReject" /\ user # null /\ user = userAtSubmit
    /\ ~loading

\* C3: when a request succeeds with a parseable body, user becomes exactly
\* that body, whatever its shape and whatever user was, and loading is false.
C3_SuccessOverwrites ==
    [][SuccessStep =>
          /\ user' = lastEvent'.arg
          /\ user' \in Bodies(inflight[lastEvent'.req].url)
          /\ ~loading']_vars

C3_Witness ==
    /\ lastEvent.kind = "jsonResolve"
    /\ user = NotFound
    /\ userAtSubmit \notin {null, NotFound}
    /\ ~loading

\* C4: what is rendered is determined by the state: the loading indicator
\* alone when loading; otherwise the input showing userName and the submit
\* button, and the result panel exactly when user is present.
C4_ViewOfState ==
    /\ loading => dom = LoadingView
    /\ ~loading =>
          /\ ~dom.indicator
          /\ dom.form /\ dom.button
          /\ dom.input = {userName}
          /\ (dom.panel # {} <=> user # null)
          /\ user # null => dom.panel = {Panel(user)}

C4_Witness ==
    loading /\ user # null /\ dom.indicator /\ dom.panel = {}

\* C5: at most one request is outstanding, and while one is outstanding the
\* form is not rendered and no submit is enabled.
C5_OneOutstanding ==
    /\ Len(inflight) <= 1
    /\ inflight # <<>> => (~dom.form /\ ~ENABLED handleSubmit)

C5_Witness ==
    Len(inflight) = 1 /\ inflight[1].pc = "json" /\ ~dom.form

\* C6: userName starts empty; a change sets it to the text typed, whatever
\* the text, and leaves user and loading alone; no other event changes it.
C6_QueryFrame ==
    /\ userName = <<>>
    /\ [][/\ lastEvent'.kind = "change" =>
               /\ userName' = lastEvent'.arg
               /\ UNCHANGED <<user, loading, inflight>>
          /\ lastEvent'.kind # "change" => userName' = userName]_vars

C6_Witness ==
    /\ lastEvent.kind = "jsonResolve"
    /\ userName = <<"/">>
    /\ user = Profile(<<"/">>)

\* C8: if every dispatched request settles, every submit is followed by a
\* state with loading false and the form rendered, and whenever loading is
\* false a submit is enabled: the component never gets stuck.
C8_EventuallyIdle ==
    /\ (lastEvent.kind = "submit") ~> (~loading /\ dom.form)
    /\ loading ~> (~loading /\ dom.form)
    /\ [](~loading => (dom.form /\ ENABLED handleSubmit))

C8_Witness ==
    lastEvent.kind = "submit" /\ loading /\ Len(console) > 0 /\ user # null

\* C10: every outstanding request carries the current userName, appended
\* verbatim to the base URL (the empty text included); so after a
\* successful settlement user is an answer to the request for the current
\* userName.
C10_ResultIsForQuery ==
    /\ [](\A i \in 1..Len(inflight) : inflight[i].url = BaseUrl \o userName)
    /\ [][lastEvent'.kind = "submit" /\ Len(inflight') > Len(inflight) =>
              inflight'[Len(inflight')].url = BaseUrl \o userName]_vars
    /\ [][SuccessStep =>
              /\ inflight[lastEvent'.req].url = BaseUrl \o userName'
              /\ user' \in {Profile(userName'), NotFound}]_vars

C10_Witness ==
    /\ lastEvent.kind = "jsonResolve"
    /\ userName = <<>>
    /\ user = Profile(<<>>)

----------------------------------------------------------------------------
(* Property of App and its lifetime *)

\* C9: an unmount leaves the outstanding request as it is, and when that
\* request settles afterwards its setters are still called, on the
\* unmounted component.
C9_RequestOutlivesComponent ==
    [][/\ (mounted /\ ~mounted') => inflight' = inflight
       /\ (~mounted /\ SuccessStep) => staleSets' = staleSets + 2
       /\ (~mounted /\ FailureStep) => staleSets' = staleSets + 1
       /\ mounted => staleSets' = staleSets]_vars

C9_Witness ==
    ~mounted /\ staleSets = 2 /\ inflight = <<>>

----------------------------------------------------------------------------
(* Property of GitHubUserSearch *)

\* C7: two submits in a row put two requests in flight; whichever of them
\* delivers its data, first or last dispatched, that data becomes user, so
\* the final user is the answer that arrived last.
C7_LastSettledWins ==
    [][SuccessStep =>
          /\ user' = lastEvent'.arg
          /\ user' \in Bodies(inflight[lastEvent'.req].url)]_vars

C7_Witness ==
    /\ inflight = <<>>
    /\ lastEvent.kind = "jsonResolve"
    /\ "login" \in DOMAIN user
    /\ Url(user.login) # lastDispatched

====
